---- MODULE Spec2Model ----
(***************************************************************************)
(* The cluster ring of vasto's topology package: the node-slot registry,   *)
(* its sizing state, the membership operations and the diagnostic          *)
(* rendering, modelled operation by operation from the Go source.          *)
(***************************************************************************)
EXTENDS Integers, Sequences, FiniteSets

\* ------------------------------------------------------------------ bounds

\* Highest node id handed to Add in the specification of the whole ring.
MaxNodeId == 2
\* Highest node id handed to Add in the membership specification.
MaxWideNodeId == 4
\* Highest node id handed to Add in the lookup specification.
MaxLookupNodeId == 1
\* Largest expected size handed to NewHashRing and SetExpectedSize.
MaxSize == 3
\* Largest next size handed to SetNextSize.
MaxNextSize == 1
\* Largest replication factor handed to NewHashRing and SetReplicationFactor.
MaxReplication == 1
\* Largest replica rank of an access option, and the most options of one call.
MaxRank == 1
MaxOptions == 2
\* Width in bits of the key hashes handed to the jump hash.
HashBits == 3
MaxShard == 1          \* shard identifiers 0..MaxShard
MaxVersion == 3        \* distinct statuses per identifier
MaxKey == 2            \* keys 1..MaxKey of the store
MaxClock == 1          \* time.Now().UnixNano() reads 1..MaxClock
MaxLog == 2            \* deletes are served while the change log is shorter

\* ------------------------------------------------------------------ values

\* A nil Node interface value (an empty registry slot, a nil return).
Nil == [nil |-> TRUE]

\* Client addresses of store resources; "" is the addressless node.
Addresses == {"", "a"}

\* The value of NewNode(id, store): the id and the store's client address.
NewNode(id, address) == [id |-> id, address |-> address]

GetId(n) == n.id

GetAddress(n) == n.address

\* A nil *pb.ShardStatus.
NoStatus == [nil |-> TRUE]

\* The shard statuses handed to a node: distinct records, several of which
\* report the same identifier.
ShardStatuses == [identifier : 0..MaxShard, version : 1..MaxVersion]

\* shardStatus.IdentifierOnThisServer(): the status's own map key.
IdentifierOnThisServer(shardStatus) == shardStatus.identifier

VARIABLES
  nodes,              \* cluster.nodes: sequence of Node or Nil, slot i at nodes[i+1]
  expectedSize,       \* cluster.expectedSize
  nextSize,           \* cluster.nextSize
  replicationFactor,  \* cluster.replicationFactor
  panicked,           \* a run-time panic (index out of range) has been raised
  last,               \* the last call: its arguments and what it returned
  shards,             \* n.shards of one node: identifier -> shard status
  reader,             \* a CurrentSize or GetNode call in progress: position and locals
  serialized,         \* the callers hold one lock around every ring operation
  conn,               \* a WithConnection call in progress: position and locals
  store               \* the store server's first node and a delete in progress

vars ==
  <<nodes, expectedSize, nextSize, replicationFactor, panicked, last, shards,
    reader, serialized, conn, store>>

ring == <<nodes, expectedSize, nextSize, replicationFactor>>

\* What lies beside the ring: the state the ring's methods never touch.
beside == <<shards, reader, serialized, conn, store>>

\* ------------------------------------------------------------ Go primitives

\* cluster.nodes[i] for an in-range i (0-based as in the source).
At(ns, i) == ns[i + 1]

\* make([]Node, capacity) followed by copy(nodes, old).
Grow(ns, capacity) ==
  [k \in 1..capacity |-> IF k <= Len(ns) THEN ns[k] ELSE Nil]

\* fmt.Sprintf("%d", n) for the integers the model prints.
Digit(d) == <<"0", "1", "2", "3", "4", "5", "6", "7", "8", "9">>[d + 1]

RECURSIVE Digits(_)
Digits(n) == IF n < 10 THEN Digit(n) ELSE Digits(n \div 10) \o Digit(n % 10)

Itoa(n) == IF n < 0 THEN "-" \o Digits(0 - n) ELSE Digits(n)

\* fmt.Sprintf("%v", list) for a []int: the elements separated by blanks.
RECURSIVE JoinInts(_)
JoinInts(list) ==
  IF Len(list) = 0 THEN ""
  ELSE IF Len(list) = 1 THEN Itoa(list[1])
  ELSE Itoa(list[1]) \o " " \o JoinInts(Tail(list))

FormatInts(list) == "[" \o JoinInts(list) \o "]"

\* ------------------------------------------------------------------ jump hash

\* The key hashes: unsigned integers of HashBits bits.
Hashes == 0..(2^HashBits - 1)

\* The bits of a key that the generator shifts away, and the bits it keeps
\* (33 and 31 of 64 in the library).
HashShift == HashBits \div 2 + 1

RandBits == HashBits - HashShift

\* The loop of jump.Hash: b is the last bucket jumped to, j the next candidate.
\* The key is advanced by the linear congruential generator modulo 2^HashBits
\* (253 is the low byte of its multiplier) and the next candidate is
\* floor((b + 1) * 2^RandBits / ((key >> HashShift) + 1)).
RECURSIVE JumpHashFrom(_, _, _, _)
JumpHashFrom(key, numBuckets, b, j) ==
  IF j < numBuckets
  THEN LET k == (key * 253 + 1) % (2^HashBits)
           r == k \div (2^HashShift)
       IN  JumpHashFrom(k, numBuckets, j, ((j + 1) * (2^RandBits)) \div (r + 1))
  ELSE b

\* jump.Hash(key, numBuckets): one bucket is used when numBuckets <= 0.
JumpHash(key, numBuckets) ==
  JumpHashFrom(key, IF numBuckets <= 0 THEN 1 ELSE numBuckets, -1, 0)

\* FindBucketGivenSize as it would be if the size were taken one too large.
FindBucketGivenSizePlusOne(keyHash, size) == JumpHash(keyHash, size + 1)

\* cluster.FindBucketGivenSize(keyHash, size).
FindBucketGivenSize(keyHash, size) == JumpHash(keyHash, size)

\* ------------------------------------------------------------ read operations

\* The loop of CurrentSize as it would be if it skipped only nil slots.
RECURSIVE CurrentSizeFromNonNil(_, _)
CurrentSizeFromNonNil(ns, i) ==
  IF i > 0
  THEN IF At(ns, i - 1) = Nil
       THEN CurrentSizeFromNonNil(ns, i - 1)
       ELSE i
  ELSE 0

\* CurrentSize as it would be if it counted the occupied slots.
CurrentSizeCounts(ns) ==
  Cardinality({k \in 1..Len(ns) : ns[k] # Nil /\ GetAddress(ns[k]) # ""})

\* CurrentSize as it would be if it reported the lowest slot holding a node
\* with an address, plus one, instead of the highest.
CurrentSizeLowest(ns) ==
  LET held == {i \in 1..Len(ns) : ns[i] # Nil /\ GetAddress(ns[i]) # ""}
  IN  IF held = {} THEN 0 ELSE CHOOSE i \in held : \A j \in held : i <= j

\* The loop of CurrentSize, at loop index i.
RECURSIVE CurrentSizeFrom(_, _)
CurrentSizeFrom(ns, i) ==
  IF i > 0
  THEN IF At(ns, i - 1) = Nil \/ GetAddress(At(ns, i - 1)) = ""
       THEN CurrentSizeFrom(ns, i - 1)
       ELSE i
  ELSE 0

CurrentSize(ns) == CurrentSizeFrom(ns, Len(ns))

\* An access option is a function of (index, ring size). One built for a
\* replica rank shifts the index by the rank and reports the rank as the
\* replica offset; the mirror option counts the index from the end of the ring
\* and reports the primary.
ApplyOption(option, index, clusterSize) ==
  IF option.kind = "mirror"
  THEN [index |-> clusterSize - 1 - index, replica |-> 0]
  ELSE [index |-> index + option.rank, replica |-> option.rank]

\* The loop of GetNode as it would be if it ranged over the options from the
\* last to the first.
RECURSIVE ApplyOptionsRightToLeft(_, _, _, _)
ApplyOptionsRightToLeft(options, index, replica, clusterSize) ==
  IF options = <<>>
  THEN [index |-> index, replica |-> replica]
  ELSE LET r == ApplyOption(options[Len(options)], index, clusterSize)
       IN  ApplyOptionsRightToLeft(SubSeq(options, 1, Len(options) - 1),
                                   r.index, r.replica, clusterSize)

\* The loop of GetNode over its options.
RECURSIVE ApplyOptions(_, _, _, _)
ApplyOptions(options, index, replica, clusterSize) ==
  IF options = <<>>
  THEN [index |-> index, replica |-> replica]
  ELSE LET r == ApplyOption(Head(options), index, clusterSize)
       IN  ApplyOptions(Tail(options), r.index, r.replica, clusterSize)

NotFound == [node |-> Nil, replica |-> 0, found |-> FALSE]

\* GetNode as it would be if an addressless node counted as no node.
GetNodeSkipsAddressless(ns, index, options) ==
  LET r == ApplyOptions(options, index, 0, Len(ns))
  IN  IF r.index < 0 \/ r.index >= Len(ns)
      THEN NotFound
      ELSE IF At(ns, r.index) = Nil \/ GetAddress(At(ns, r.index)) = ""
           THEN NotFound
           ELSE [node |-> At(ns, r.index), replica |-> r.replica, found |-> TRUE]

GetNode(ns, index, options) ==
  LET r == ApplyOptions(options, index, 0, Len(ns))
  IN  IF r.index < 0 \/ r.index >= Len(ns)
      THEN NotFound
      ELSE IF At(ns, r.index) = Nil
           THEN NotFound
           ELSE [node |-> At(ns, r.index), replica |-> r.replica, found |-> TRUE]

\* The loop of MissingAndFreeNodeIds as it would be with the missing test
\* off by one (i <= currentClusterSize).
RECURSIVE MissingAndFreeFromInclusive(_, _, _, _, _, _)
MissingAndFreeFromInclusive(ns, i, max, currentClusterSize, missingList, freeList) ==
  IF i < max
  THEN LET n == IF i < Len(ns) THEN At(ns, i) ELSE Nil
       IN  IF n = Nil \/ GetAddress(n) = ""
           THEN MissingAndFreeFromInclusive(ns, i + 1, max, currentClusterSize,
                  IF i <= currentClusterSize THEN Append(missingList, i) ELSE missingList,
                  freeList)
           ELSE MissingAndFreeFromInclusive(ns, i + 1, max, currentClusterSize,
                  missingList,
                  IF i >= currentClusterSize THEN Append(freeList, i) ELSE freeList)
  ELSE [missing |-> missingList, free |-> freeList]

\* The loop of MissingAndFreeNodeIds, at loop index i.
RECURSIVE MissingAndFreeFrom(_, _, _, _, _, _)
MissingAndFreeFrom(ns, i, max, currentClusterSize, missingList, freeList) ==
  IF i < max
  THEN LET n == IF i < Len(ns) THEN At(ns, i) ELSE Nil
       IN  IF n = Nil \/ GetAddress(n) = ""
           THEN MissingAndFreeFrom(ns, i + 1, max, currentClusterSize,
                  IF i < currentClusterSize THEN Append(missingList, i) ELSE missingList,
                  freeList)
           ELSE MissingAndFreeFrom(ns, i + 1, max, currentClusterSize,
                  missingList,
                  IF i >= currentClusterSize THEN Append(freeList, i) ELSE freeList)
  ELSE [missing |-> missingList, free |-> freeList]

MissingAndFreeNodeIds(ns) ==
  LET currentClusterSize == CurrentSize(ns)
      max == IF Len(ns) < currentClusterSize THEN currentClusterSize ELSE Len(ns)
  IN  MissingAndFreeFrom(ns, 0, max, currentClusterSize, <<>>, <<>>)

\* The first loop of String: the slot list, at loop index i.
RECURSIVE StringSlotsFrom(_, _, _, _, _, _)
StringSlotsFrom(ns, expected, nodeCount, i, max, output) ==
  IF i < max
  THEN LET n   == IF i < Len(ns) THEN At(ns, i) ELSE Nil
           sep == IF i # 0 THEN " " ELSE ""
       IN  IF n = Nil \/ GetAddress(n) = ""
           THEN IF i < expected \/ i < nodeCount
                THEN StringSlotsFrom(ns, expected, nodeCount, i + 1, max, output \o sep \o "_")
                ELSE StringSlotsFrom(ns, expected, nodeCount, i + 1, max, output)
           ELSE StringSlotsFrom(ns, expected, nodeCount, i + 1, max,
                  output \o sep \o Itoa(GetId(n)))
  ELSE output

StringSlots(ns, expected) ==
  LET nodeCount == CurrentSize(ns)
      max == IF Len(ns) < expected THEN expected ELSE Len(ns)
  IN  StringSlotsFrom(ns, expected, nodeCount, 0, max, "[") \o "]"

\* The size annotation as it would be if the arrow form reported the number
\* of occupied slots instead of CurrentSize.
StringSizeCountsNodes(ns, expected, next) ==
  LET count == Cardinality({k \in 1..Len(ns) : ns[k] # Nil /\ GetAddress(ns[k]) # ""})
  IN  IF next = 0
      THEN IF count # expected /\ expected # 0
           THEN " size " \o Itoa(count) \o "->" \o Itoa(expected) \o " "
           ELSE " size " \o Itoa(count) \o " "
      ELSE " size " \o Itoa(count) \o "=>" \o Itoa(next) \o " "

\* The size annotation as it would be without the expectedSize != 0 test.
StringSizeAnyExpected(ns, expected, next) ==
  IF next = 0
  THEN IF CurrentSize(ns) # expected
       THEN " size " \o Itoa(CurrentSize(ns)) \o "->" \o Itoa(expected) \o " "
       ELSE " size " \o Itoa(CurrentSize(ns)) \o " "
  ELSE " size " \o Itoa(CurrentSize(ns)) \o "=>" \o Itoa(next) \o " "

\* The size annotation of String.
StringSize(ns, expected, next) ==
  IF next = 0
  THEN IF CurrentSize(ns) # expected /\ expected # 0
       THEN " size " \o Itoa(CurrentSize(ns)) \o "->" \o Itoa(expected) \o " "
       ELSE " size " \o Itoa(CurrentSize(ns)) \o " "
  ELSE " size " \o Itoa(CurrentSize(ns)) \o "=>" \o Itoa(next) \o " "

\* The missing/free section of String.
StringLists(ns) ==
  LET missingList == MissingAndFreeNodeIds(ns).missing
      freeList == MissingAndFreeNodeIds(ns).free
  IN  IF Len(missingList) > 0 \/ Len(freeList) > 0
      THEN "("
           \o (IF Len(missingList) > 0
               THEN Itoa(Len(missingList)) \o " missing " \o FormatInts(missingList)
               ELSE "")
           \o (IF Len(freeList) > 0
               THEN (IF Len(missingList) > 0 THEN ", " ELSE "")
                    \o Itoa(Len(freeList)) \o " free " \o FormatInts(freeList)
               ELSE "")
           \o ")"
      ELSE ""

String(ns, expected, next) ==
  StringSlots(ns, expected) \o StringSize(ns, expected, next) \o StringLists(ns)

\* ------------------------------------------------------------------ calls

\* The record of a call before any call was made (the ring as constructed).
NoCall ==
  [op |-> "NewHashRing", node |-> Nil, index |-> 0, options |-> <<>>, value |-> 0,
   added |-> Nil, retNode |-> Nil, retReplica |-> 0, retFound |-> FALSE,
   retSize |-> 0, retMissing |-> <<>>, retFree |-> <<>>, retString |-> "",
   keyHash |-> 0, retBucket |-> 0,
   status |-> NoStatus, retStatus |-> NoStatus, retStatuses |-> <<>>]

\* The node that the call made just before this one added at slot index, if
\* that call was an Add of a node with that id which returned; Nil otherwise.
JustAdded(index) ==
  IF last.op = "Add" /\ ~panicked /\ GetId(last.node) = index THEN last.node ELSE Nil

\* NewHashRing(keyspace, dataCenter, expectedSize, replicationFactor).
NewHashRing(expected, replication) ==
  /\ nodes = <<>>
  /\ expectedSize = expected
  /\ nextSize = 0
  /\ replicationFactor = replication
  /\ panicked = FALSE
  /\ last = NoCall

\* Add as it would be if an occupied slot were kept instead of overwritten.
AddKeepsOccupant(n) ==
  /\ ~panicked
  /\ LET grown == IF Len(nodes) < GetId(n) + 1 THEN Grow(nodes, GetId(n) + 1) ELSE nodes
     IN  IF GetId(n) < 0
         THEN /\ nodes' = grown
              /\ panicked' = TRUE
         ELSE /\ nodes' = IF grown[GetId(n) + 1] = Nil
                          THEN [grown EXCEPT ![GetId(n) + 1] = n]
                          ELSE grown
              /\ panicked' = FALSE
  /\ last' = [NoCall EXCEPT !.op = "Add", !.node = n]
  /\ UNCHANGED beside
  /\ UNCHANGED <<expectedSize, nextSize, replicationFactor>>

\* Add as it would be if it reallocated the registry to n.id + 1 slots on
\* every call, without the length test.
AddReallocates(n) ==
  /\ ~panicked
  /\ LET grown == Grow(nodes, IF GetId(n) < 0 THEN 0 ELSE GetId(n) + 1)
     IN  IF GetId(n) < 0
         THEN /\ nodes' = grown
              /\ panicked' = TRUE
         ELSE /\ nodes' = [grown EXCEPT ![GetId(n) + 1] = n]
              /\ panicked' = FALSE
  /\ last' = [NoCall EXCEPT !.op = "Add", !.node = n]
  /\ UNCHANGED beside
  /\ UNCHANGED <<expectedSize, nextSize, replicationFactor>>

\* Add as it would be if it appended the node to the registry instead of
\* storing it at its id.
AddAppends(n) ==
  /\ ~panicked
  /\ IF GetId(n) < 0
     THEN /\ nodes' = nodes
          /\ panicked' = TRUE
     ELSE /\ nodes' = Append(nodes, n)
          /\ panicked' = FALSE
  /\ last' = [NoCall EXCEPT !.op = "Add", !.node = n]
  /\ UNCHANGED beside
  /\ UNCHANGED <<expectedSize, nextSize, replicationFactor>>

\* cluster.Add(n). An index below zero is a run-time panic at the slot store.
Add(n) ==
  /\ ~panicked
  /\ LET grown == IF Len(nodes) < GetId(n) + 1 THEN Grow(nodes, GetId(n) + 1) ELSE nodes
     IN  IF GetId(n) < 0
         THEN /\ nodes' = grown
              /\ panicked' = TRUE
         ELSE /\ nodes' = [grown EXCEPT ![GetId(n) + 1] = n]
              /\ panicked' = FALSE
  /\ last' = [NoCall EXCEPT !.op = "Add", !.node = n]
  /\ UNCHANGED beside
  /\ UNCHANGED <<expectedSize, nextSize, replicationFactor>>

\* Remove as it would be if it returned the slot's node without clearing the
\* slot.
RemoveKeepsSlot(nodeId) ==
  /\ ~panicked
  /\ IF nodeId < Len(nodes)
     THEN IF nodeId < 0
          THEN /\ panicked' = TRUE
               /\ last' = [NoCall EXCEPT !.op = "Remove", !.index = nodeId]
          ELSE /\ panicked' = FALSE
               /\ last' = [NoCall EXCEPT !.op = "Remove", !.index = nodeId,
                                         !.retNode = At(nodes, nodeId)]
     ELSE /\ panicked' = FALSE
          /\ last' = [NoCall EXCEPT !.op = "Remove", !.index = nodeId]
  /\ UNCHANGED beside
  /\ UNCHANGED <<nodes, expectedSize, nextSize, replicationFactor>>

\* cluster.Remove(nodeId). The only bound checked is the upper one, so an id
\* below zero is a run-time panic at the slot read.
Remove(nodeId) ==
  /\ ~panicked
  /\ IF nodeId < Len(nodes)
     THEN IF nodeId < 0
          THEN /\ panicked' = TRUE
               /\ nodes' = nodes
               /\ last' = [NoCall EXCEPT !.op = "Remove", !.index = nodeId]
          ELSE /\ panicked' = FALSE
               /\ nodes' = [nodes EXCEPT ![nodeId + 1] = Nil]
               /\ last' = [NoCall EXCEPT !.op = "Remove", !.index = nodeId,
                                         !.retNode = At(nodes, nodeId)]
     ELSE /\ panicked' = FALSE
          /\ nodes' = nodes
          /\ last' = [NoCall EXCEPT !.op = "Remove", !.index = nodeId]
  /\ UNCHANGED beside
  /\ UNCHANGED <<expectedSize, nextSize, replicationFactor>>

\* SetExpectedSize as it would be if the guard let zero through (v >= 0).
SetExpectedSizeAcceptsZero(v) ==
  /\ ~panicked
  /\ expectedSize' = IF v >= 0 THEN v ELSE expectedSize
  /\ last' = [NoCall EXCEPT !.op = "SetExpectedSize", !.value = v]
  /\ UNCHANGED beside
  /\ UNCHANGED <<nodes, nextSize, replicationFactor, panicked>>

SetExpectedSize(v) ==
  /\ ~panicked
  /\ expectedSize' = IF v > 0 THEN v ELSE expectedSize
  /\ last' = [NoCall EXCEPT !.op = "SetExpectedSize", !.value = v]
  /\ UNCHANGED beside
  /\ UNCHANGED <<nodes, nextSize, replicationFactor, panicked>>

SetNextSize(v) ==
  /\ ~panicked
  /\ nextSize' = v
  /\ last' = [NoCall EXCEPT !.op = "SetNextSize", !.value = v]
  /\ UNCHANGED beside
  /\ UNCHANGED <<nodes, expectedSize, replicationFactor, panicked>>

SetReplicationFactor(v) ==
  /\ ~panicked
  /\ replicationFactor' = IF v > 0 THEN v ELSE replicationFactor
  /\ last' = [NoCall EXCEPT !.op = "SetReplicationFactor", !.value = v]
  /\ UNCHANGED beside
  /\ UNCHANGED <<nodes, expectedSize, nextSize, panicked>>

CallCurrentSize ==
  /\ ~panicked
  /\ last' = [NoCall EXCEPT !.op = "CurrentSize", !.retSize = CurrentSize(nodes)]
  /\ UNCHANGED beside
  /\ UNCHANGED <<nodes, expectedSize, nextSize, replicationFactor, panicked>>

CallGetNode(index, options) ==
  /\ ~panicked
  /\ LET r == GetNode(nodes, index, options)
     IN  last' = [NoCall EXCEPT !.op = "GetNode", !.index = index, !.options = options,
                                !.added = JustAdded(index), !.retNode = r.node,
                                !.retReplica = r.replica, !.retFound = r.found]
  /\ UNCHANGED beside
  /\ UNCHANGED <<nodes, expectedSize, nextSize, replicationFactor, panicked>>

CallMissingAndFreeNodeIds ==
  /\ ~panicked
  /\ LET r == MissingAndFreeNodeIds(nodes)
     IN  last' = [NoCall EXCEPT !.op = "MissingAndFreeNodeIds",
                                !.retMissing = r.missing, !.retFree = r.free]
  /\ UNCHANGED beside
  /\ UNCHANGED <<nodes, expectedSize, nextSize, replicationFactor, panicked>>

CallString ==
  /\ ~panicked
  /\ last' = [NoCall EXCEPT !.op = "String",
                            !.retString = String(nodes, expectedSize, nextSize)]
  /\ UNCHANGED beside
  /\ UNCHANGED <<nodes, expectedSize, nextSize, replicationFactor, panicked>>

\* cluster.ExpectedSize().
ExpectedSize == expectedSize

\* FindBucket as it would be if it hashed over the current size of the ring.
FindBucketOverCurrentSize(keyHash) == JumpHash(keyHash, CurrentSize(nodes))

\* cluster.FindBucket(keyHash).
FindBucket(keyHash) == JumpHash(keyHash, ExpectedSize)

CallFindBucketGivenSize(keyHash, size) ==
  /\ ~panicked
  /\ last' = [NoCall EXCEPT !.op = "FindBucketGivenSize", !.keyHash = keyHash,
                            !.value = size,
                            !.retBucket = FindBucketGivenSize(keyHash, size)]
  /\ UNCHANGED beside
  /\ UNCHANGED <<nodes, expectedSize, nextSize, replicationFactor, panicked>>

CallFindBucket(keyHash) ==
  /\ ~panicked
  /\ last' = [NoCall EXCEPT !.op = "FindBucket", !.keyHash = keyHash,
                            !.retBucket = FindBucket(keyHash)]
  /\ UNCHANGED beside
  /\ UNCHANGED <<nodes, expectedSize, nextSize, replicationFactor, panicked>>

\* ------------------------------------------------------- node shard statuses

\* n.shards[key]: the zero value (nil) for a key the map does not hold.
Lookup(m, key) == IF key \in DOMAIN m THEN m[key] ELSE NoStatus

\* n.shards[key] = value.
Store(m, key, value) ==
  [k \in DOMAIN m \cup {key} |-> IF k = key THEN value ELSE m[k]]

\* delete(n.shards, key).
Delete(m, key) == [k \in DOMAIN m \ {key} |-> m[k]]

\* The orders in which a range over the map can visit its keys.
RangeOrders(m) ==
  {f \in [1..Cardinality(DOMAIN m) -> DOMAIN m] :
     \A i, j \in 1..Cardinality(DOMAIN m) : i # j => f[i] # f[j]}

\* SetShardStatus as it would be if it kept one entry per status rather than
\* one per identifier.
SetShardStatusPerVersion(shardStatus) ==
  /\ ~panicked
  /\ LET key == 10 * shardStatus.version + IdentifierOnThisServer(shardStatus)
     IN  /\ last' = [NoCall EXCEPT !.op = "SetShardStatus", !.status = shardStatus,
                                   !.retStatus = Lookup(shards, key)]
         /\ shards' = Store(shards, key, shardStatus)
  /\ UNCHANGED <<ring, panicked, reader, serialized, conn, store>>

\* n.SetShardStatus(shardStatus).
SetShardStatus(shardStatus) ==
  /\ ~panicked
  /\ last' = [NoCall EXCEPT !.op = "SetShardStatus", !.status = shardStatus,
                            !.retStatus =
                              Lookup(shards, IdentifierOnThisServer(shardStatus))]
  /\ shards' = Store(shards, IdentifierOnThisServer(shardStatus), shardStatus)
  /\ UNCHANGED <<ring, panicked, reader, serialized, conn, store>>

\* n.RemoveShardStatus(shardStatus).
RemoveShardStatus(shardStatus) ==
  /\ ~panicked
  /\ last' = [NoCall EXCEPT !.op = "RemoveShardStatus", !.status = shardStatus]
  /\ shards' = Delete(shards, IdentifierOnThisServer(shardStatus))
  /\ UNCHANGED <<ring, panicked, reader, serialized, conn, store>>

\* n.GetShardStatuses(): one status appended per map entry, in whatever order
\* the range visits them.
GetShardStatuses ==
  /\ ~panicked
  /\ \E order \in RangeOrders(shards) :
       last' = [NoCall EXCEPT !.op = "GetShardStatuses",
                              !.retStatuses = [k \in DOMAIN order |-> shards[order[k]]]]
  /\ UNCHANGED <<ring, panicked, shards, reader, serialized, conn, store>>

\* ------------------------------------------------- reads against a Remove

\* No read in progress.
ReaderIdle ==
  [pc |-> "idle", op |-> "none", index |-> 0, i |-> 0, held |-> Nil,
   retNode |-> Nil, retFound |-> FALSE, retSize |-> 0,
   fault |-> FALSE, foundNil |-> FALSE]

\* A mutation may run now: under the callers' lock only between reads.
Exclusive == serialized => reader.pc = "idle"

\* cluster.Remove(nodeId) from another goroutine.
RacingRemove(nodeId) == Exclusive /\ Remove(nodeId)

\* cluster.Add(n), always between reads.
QuietAdd(n) == reader.pc = "idle" /\ Add(n)

\* CurrentSize: i := len(cluster.nodes).
CurrentSizeBegin ==
  /\ ~panicked
  /\ reader.pc = "idle"
  /\ reader' = [ReaderIdle EXCEPT !.pc = "sizeTest", !.op = "CurrentSize",
                                  !.i = Len(nodes), !.foundNil = reader.foundNil]
  /\ UNCHANGED <<ring, panicked, last, shards, serialized, conn, store>>

\* CurrentSize: the loop test i > 0 and the first read of the slot,
\* cluster.nodes[i-1] == nil.
CurrentSizeNilTest ==
  /\ ~panicked
  /\ reader.pc = "sizeTest"
  /\ reader' = IF reader.i <= 0
               THEN [reader EXCEPT !.pc = "idle", !.retSize = 0]
               ELSE IF At(nodes, reader.i - 1) = Nil
                    THEN [reader EXCEPT !.i = reader.i - 1]
                    ELSE [reader EXCEPT !.pc = "sizeAddress",
                                        !.held = At(nodes, reader.i - 1)]
  /\ UNCHANGED <<ring, panicked, last, shards, serialized, conn, store>>

\* CurrentSize: the second read of the slot, cluster.nodes[i-1].GetAddress().
\* The build may reuse the value of the first read or load the slot again.
CurrentSizeAddress ==
  /\ ~panicked
  /\ reader.pc = "sizeAddress"
  /\ \E n \in {reader.held, At(nodes, reader.i - 1)} :
       IF n = Nil
       THEN /\ reader' = [reader EXCEPT !.pc = "idle", !.fault = TRUE]
            /\ panicked' = TRUE
       ELSE /\ reader' = IF GetAddress(n) = ""
                         THEN [reader EXCEPT !.pc = "sizeTest", !.i = reader.i - 1]
                         ELSE [reader EXCEPT !.pc = "idle", !.retSize = reader.i]
            /\ panicked' = FALSE
  /\ UNCHANGED <<ring, last, shards, serialized, conn, store>>

\* GetNode without options: the range test on the index.
GetNodeBegin(index) ==
  /\ ~panicked
  /\ reader.pc = "idle"
  /\ reader' = IF index < 0 \/ index >= Len(nodes)
               THEN [ReaderIdle EXCEPT !.op = "GetNode", !.index = index,
                                       !.foundNil = reader.foundNil]
               ELSE [ReaderIdle EXCEPT !.pc = "nodeTest", !.op = "GetNode",
                                       !.index = index, !.foundNil = reader.foundNil]
  /\ UNCHANGED <<ring, panicked, last, shards, serialized, conn, store>>

\* The nil test of GetNode as it would be if it were left out.
GetNodeNilTestSkipped ==
  /\ ~panicked
  /\ reader.pc = "nodeTest"
  /\ reader' = [reader EXCEPT !.pc = "nodeReturn", !.held = At(nodes, reader.index)]
  /\ UNCHANGED <<ring, panicked, last, shards, serialized, conn, store>>

\* GetNode: the first read of the slot, cluster.nodes[index] == nil.
GetNodeNilTest ==
  /\ ~panicked
  /\ reader.pc = "nodeTest"
  /\ reader' = IF At(nodes, reader.index) = Nil
               THEN [reader EXCEPT !.pc = "idle"]
               ELSE [reader EXCEPT !.pc = "nodeReturn",
                                   !.held = At(nodes, reader.index)]
  /\ UNCHANGED <<ring, panicked, last, shards, serialized, conn, store>>

\* GetNode: the second read of the slot, return cluster.nodes[index], replica,
\* true. The build may reuse the value of the first read or load the slot again.
GetNodeReturn ==
  /\ ~panicked
  /\ reader.pc = "nodeReturn"
  /\ \E n \in {reader.held, At(nodes, reader.index)} :
       reader' = [reader EXCEPT !.pc = "idle", !.retNode = n, !.retFound = TRUE,
                                !.foundNil = reader.foundNil \/ n = Nil]
  /\ UNCHANGED <<ring, panicked, last, shards, serialized, conn, store>>

\* --------------------------------------------------------- WithConnection

\* No WithConnection call made yet.
ConnIdle ==
  [pc |-> "idle", variant |-> "none", serverId |-> 0, resolved |-> FALSE,
   node |-> Nil, dialed |-> FALSE, fnCalls |-> 0, fnResult |-> "none",
   closed |-> FALSE, ret |-> "none"]

\* What the caller's fn can return: nil or an error of its own.
FnResults == {"nil", "fn failed"}

\* cluster.GetNode(serverId) of the Cluster type: the ring's resolution of the
\* server id.
ClusterGetNode(ns, serverId) == GetNode(ns, serverId, <<>>)

\* (*Cluster).WithConnection up to its return or its call of doWithConnect.
WithConnection(serverId) ==
  /\ ~panicked
  /\ conn.pc = "idle"
  /\ LET r == ClusterGetNode(nodes, serverId)
     IN  conn' = IF ~r.found
                 THEN [ConnIdle EXCEPT !.variant = "Cluster", !.serverId = serverId,
                                       !.ret = "server not found"]
                 ELSE [ConnIdle EXCEPT !.variant = "Cluster", !.serverId = serverId,
                                       !.resolved = TRUE, !.node = r.node,
                                       !.pc = "connect"]
  /\ UNCHANGED <<ring, panicked, last, shards, reader, serialized, store>>

\* PrimaryShards.WithConnection up to its return or its call of doWithConnect.
PrimaryShardsWithConnection(serverId) ==
  /\ ~panicked
  /\ conn.pc = "idle"
  /\ conn' = IF serverId < 0 \/ serverId >= Len(nodes)
             THEN [ConnIdle EXCEPT !.variant = "PrimaryShards", !.serverId = serverId,
                                   !.ret = "server not found in servers"]
             ELSE [ConnIdle EXCEPT !.variant = "PrimaryShards", !.serverId = serverId,
                                   !.resolved = TRUE, !.node = At(nodes, serverId),
                                   !.pc = "connect"]
  /\ UNCHANGED <<ring, panicked, last, shards, reader, serialized, store>>

\* doWithConnect as it would be if the error of grpc.Dial were ignored.
DoWithConnectIgnoresDialError ==
  /\ ~panicked
  /\ conn.pc = "connect"
  /\ \E dialed \in BOOLEAN :
       conn' = IF conn.node = Nil
               THEN [conn EXCEPT !.pc = "idle", !.ret = "server is missing"]
               ELSE [conn EXCEPT !.pc = "fn", !.dialed = dialed]
  /\ UNCHANGED <<ring, panicked, last, shards, reader, serialized, store>>

\* doWithConnect: the nil test and grpc.Dial, which succeeds or fails.
DoWithConnect ==
  /\ ~panicked
  /\ conn.pc = "connect"
  /\ \E dialed \in BOOLEAN :
       conn' = IF conn.node = Nil
               THEN [conn EXCEPT !.pc = "idle", !.ret = "server is missing"]
               ELSE IF ~dialed
                    THEN [conn EXCEPT !.pc = "idle", !.ret = "fail to dial"]
                    ELSE [conn EXCEPT !.pc = "fn", !.dialed = TRUE]
  /\ UNCHANGED <<ring, panicked, last, shards, reader, serialized, store>>

\* doWithConnect: fn(node, grpcConnection), whose result it will return.
InvokeFn ==
  /\ ~panicked
  /\ conn.pc = "fn"
  /\ \E result \in FnResults :
       conn' = [conn EXCEPT !.pc = "close", !.fnCalls = conn.fnCalls + 1,
                            !.fnResult = result]
  /\ UNCHANGED <<ring, panicked, last, shards, reader, serialized, store>>

\* doWithConnect: the deferred grpcConnection.Close() and the return.
CloseAndReturn ==
  /\ ~panicked
  /\ conn.pc = "close"
  /\ conn' = [conn EXCEPT !.pc = "idle", !.closed = TRUE, !.ret = conn.fnResult]
  /\ UNCHANGED <<ring, panicked, last, shards, reader, serialized, store>>

\* ----------------------------------------------------------- processDelete

\* The errors db.Delete can return; "nil" is a nil error.
DeleteErrors == {"io error", "db closed"}

DeleteRequests == [Key : 1..MaxKey, PartitionHash : 0..1]

\* pb.DeleteResponse.
DeleteResponse(ok, status) == [Ok |-> ok, Status |-> status]

\* change_log.NewLogEntry(partitionHash, updatedAtNs, ttlSecond, isDelete, key,
\* value).
NewLogEntry(partitionHash, updatedAtNs, ttlSecond, isDelete, key, value) ==
  [PartitionHash |-> partitionHash, UpdatedAtNs |-> updatedAtNs,
   TtlSecond |-> ttlSecond, IsDelete |-> isDelete, Key |-> key, Value |-> value]

\* The store server as started: every key stored, nothing logged, no request
\* served; lm tells whether ss.nodes[0].lm is set.
StoreStarted(lm) ==
  [pc |-> "idle", db |-> 1..MaxKey, lm |-> lm, log |-> <<>>, logBefore |-> <<>>,
   request |-> [Key |-> 0, PartitionHash |-> 0], err |-> "none", now |-> 0,
   resp |-> DeleteResponse(FALSE, "")]

StoreIdle == StoreStarted(TRUE)

\* processDelete as it would be if it logged the delete before looking at the
\* error of db.Delete.
ProcessDeleteLogsFirst(deleteRequest) ==
  /\ ~panicked
  /\ store.pc = "idle"
  /\ Len(store.log) < MaxLog
  /\ \E err \in DeleteErrors \cup {"nil"}, now \in 1..MaxClock :
       store' = [store EXCEPT !.pc = "logDelete",
                              !.db = IF err = "nil" THEN store.db \ {deleteRequest.Key}
                                     ELSE store.db,
                              !.request = deleteRequest, !.err = err, !.now = now,
                              !.logBefore = store.log,
                              !.resp = IF err = "nil" THEN DeleteResponse(TRUE, "")
                                       ELSE DeleteResponse(FALSE, err)]
  /\ UNCHANGED <<ring, panicked, last, shards, reader, serialized, conn>>

\* ss.processDelete(deleteRequest) up to its return or its call of logDelete.
\* db.Delete removes the key or fails and leaves the store as it was.
ProcessDelete(deleteRequest) ==
  /\ ~panicked
  /\ store.pc = "idle"
  /\ Len(store.log) < MaxLog
  /\ \E err \in DeleteErrors \cup {"nil"}, now \in 1..MaxClock :
       store' = IF err # "nil"
                THEN [store EXCEPT !.request = deleteRequest, !.err = err,
                                   !.now = 0, !.logBefore = store.log,
                                   !.resp = DeleteResponse(FALSE, err)]
                ELSE [store EXCEPT !.pc = "logDelete",
                                   !.db = store.db \ {deleteRequest.Key},
                                   !.request = deleteRequest, !.err = err,
                                   !.now = now, !.logBefore = store.log,
                                   !.resp = DeleteResponse(TRUE, "")]
  /\ UNCHANGED <<ring, panicked, last, shards, reader, serialized, conn>>

\* ss.logDelete(key, partitionHash, updatedAtNs) and the return of
\* processDelete.
LogDelete ==
  /\ ~panicked
  /\ store.pc = "logDelete"
  /\ store' = IF ~store.lm
              THEN [store EXCEPT !.pc = "idle"]
              ELSE [store EXCEPT !.pc = "idle",
                                 !.log = Append(store.log,
                                           NewLogEntry(store.request.PartitionHash,
                                                       store.now, 0, TRUE,
                                                       store.request.Key, Nil))]
  /\ UNCHANGED <<ring, panicked, last, shards, reader, serialized, conn>>

\* ------------------------------------------------------------ specifications

\* The state beside the ring as construction leaves it: NewNode's empty map,
\* no call in progress.
Beside ==
  /\ shards = <<>>
  /\ reader = ReaderIdle
  /\ serialized = TRUE
  /\ conn = ConnIdle
  /\ store = StoreIdle

\* The nodes handed to Add: every id from -1 up to maxId, with and without an
\* address.
NodesUpTo(maxId) == {NewNode(id, a) : id \in -1..maxId, a \in Addresses}

\* The indices handed to Remove and GetNode: from below the registry to
\* beyond the longest registry.
IndicesUpTo(maxId) == -1..(maxId + 1)

\* The access options of a call: at most MaxOptions of the replica ranks and
\* the mirror.
Options == [kind : {"rank"}, rank : 1..MaxRank] \cup {[kind |-> "mirror", rank |-> 0]}

OptionLists == UNION {[1..k -> Options] : k \in 0..MaxOptions}

\* The whole ring: every operation, GetNode called without options.
Init ==
  /\ \E expected \in 0..MaxSize, replication \in 0..MaxReplication :
       NewHashRing(expected, replication)
  /\ Beside

Next ==
  \/ \E n \in NodesUpTo(MaxNodeId) : Add(n)
  \/ \E nodeId \in IndicesUpTo(MaxNodeId) : Remove(nodeId)
  \/ \E v \in -1..MaxSize : SetExpectedSize(v)
  \/ \E v \in -1..MaxNextSize : SetNextSize(v)
  \/ \E v \in -1..MaxReplication : SetReplicationFactor(v)
  \/ CallCurrentSize
  \/ \E index \in IndicesUpTo(MaxNodeId) : CallGetNode(index, <<>>)
  \/ CallMissingAndFreeNodeIds
  \/ CallString

Spec == Init /\ [][Next]_vars

\* Membership over a wider registry. The sizing state, which these operations
\* neither read nor write, stays as constructed.
InitMembership == NewHashRing(MaxSize, MaxReplication) /\ Beside

NextMembership ==
  \/ \E n \in NodesUpTo(MaxWideNodeId) : Add(n)
  \/ \E nodeId \in IndicesUpTo(MaxWideNodeId) : Remove(nodeId)
  \/ CallCurrentSize
  \/ CallMissingAndFreeNodeIds

SpecMembership == InitMembership /\ [][NextMembership]_vars

\* Lookup: membership changes and GetNode called with access options.
NextLookup ==
  \/ \E n \in NodesUpTo(MaxLookupNodeId) : Add(n)
  \/ \E nodeId \in IndicesUpTo(MaxLookupNodeId) : Remove(nodeId)
  \/ \E index \in IndicesUpTo(MaxLookupNodeId), options \in OptionLists :
       CallGetNode(index, options)

SpecLookup == InitMembership /\ [][NextLookup]_vars

\* Bucket assignment: the jump hash under every sizing change, on a registry
\* of a single slot.
NextBucket ==
  \/ \E n \in NodesUpTo(0) : Add(n)
  \/ \E nodeId \in IndicesUpTo(0) : Remove(nodeId)
  \/ \E v \in -1..MaxSize : SetExpectedSize(v)
  \/ \E v \in -1..MaxNextSize : SetNextSize(v)
  \/ \E v \in -1..MaxReplication : SetReplicationFactor(v)
  \/ \E keyHash \in Hashes : CallFindBucket(keyHash)

SpecBucket == Init /\ [][NextBucket]_vars

\* The pure bucket function applied to every hash and every positive size, on
\* every ring the constructor can build.
NextJump ==
  \E keyHash \in Hashes, size \in 1..MaxSize : CallFindBucketGivenSize(keyHash, size)

SpecJump == Init /\ [][NextJump]_vars

\* The mutations alone: membership and sizing changes, no reads.
NextMutation ==
  \/ \E n \in NodesUpTo(MaxNodeId) : Add(n)
  \/ \E nodeId \in IndicesUpTo(MaxNodeId) : Remove(nodeId)
  \/ \E v \in -1..MaxSize : SetExpectedSize(v)
  \/ \E v \in -1..MaxNextSize : SetNextSize(v)
  \/ \E v \in -1..MaxReplication : SetReplicationFactor(v)

SpecMutation == Init /\ [][NextMutation]_vars

\* One node's shard statuses: set, remove and list.
NextShards ==
  \/ \E shardStatus \in ShardStatuses : SetShardStatus(shardStatus)
  \/ \E shardStatus \in ShardStatuses : RemoveShardStatus(shardStatus)
  \/ GetShardStatuses

SpecShards == InitMembership /\ [][NextShards]_vars

\* Reads step by step against Remove, with and without the callers' lock.
InitRace ==
  /\ NewHashRing(MaxSize, MaxReplication)
  /\ shards = <<>>
  /\ reader = ReaderIdle
  /\ serialized \in BOOLEAN
  /\ conn = ConnIdle
  /\ store = StoreIdle

NextRace ==
  \/ \E n \in NodesUpTo(MaxLookupNodeId) : QuietAdd(n)
  \/ \E nodeId \in IndicesUpTo(MaxLookupNodeId) : RacingRemove(nodeId)
  \/ CurrentSizeBegin
  \/ CurrentSizeNilTest
  \/ CurrentSizeAddress
  \/ \E index \in IndicesUpTo(MaxLookupNodeId) : GetNodeBegin(index)
  \/ GetNodeNilTest
  \/ GetNodeReturn

SpecRace == InitRace /\ [][NextRace]_vars

\* Both WithConnection variants over a registry that members join and leave.
NextConnection ==
  \/ \E n \in NodesUpTo(MaxLookupNodeId) : Add(n)
  \/ \E nodeId \in IndicesUpTo(MaxLookupNodeId) : Remove(nodeId)
  \/ \E serverId \in IndicesUpTo(MaxLookupNodeId) : WithConnection(serverId)
  \/ \E serverId \in IndicesUpTo(MaxLookupNodeId) : PrimaryShardsWithConnection(serverId)
  \/ DoWithConnect
  \/ InvokeFn
  \/ CloseAndReturn

SpecConnection == InitMembership /\ [][NextConnection]_vars

\* Deletes served by a store with and without a log manager.
InitStore ==
  /\ NewHashRing(MaxSize, MaxReplication)
  /\ shards = <<>>
  /\ reader = ReaderIdle
  /\ serialized = TRUE
  /\ conn = ConnIdle
  /\ \E lm \in BOOLEAN : store = StoreStarted(lm)

NextStore ==
  \/ \E deleteRequest \in DeleteRequests : ProcessDelete(deleteRequest)
  \/ LogDelete

SpecStore == InitStore /\ [][NextStore]_vars

\* ---------------------------------------------------- vocabulary of the claims

\* Slot i of the registry holds a node with a non-empty client address.
Occupied(ns, i) ==
  /\ i \in 0..(Len(ns) - 1)
  /\ At(ns, i) # Nil
  /\ GetAddress(At(ns, i)) # ""

OccupiedSlots(ns) == {i \in 0..(Len(ns) - 1) : Occupied(ns, i)}

\* The highest occupied slot index plus one, 0 when no slot is occupied.
Extent(ns) ==
  IF OccupiedSlots(ns) = {}
  THEN 0
  ELSE 1 + CHOOSE m \in OccupiedSlots(ns) : \A i \in OccupiedSlots(ns) : i <= m

\* The sequence list holds exactly the members of set S, in ascending order.
IsAscendingListOf(list, S) ==
  /\ Len(list) = Cardinality(S)
  /\ {list[k] : k \in 1..Len(list)} = S
  /\ \A k \in 1..(Len(list) - 1) : list[k] < list[k + 1]

\* The slot a GetNode call resolves to once its options have been applied.
ResolvedIndex(ns, index, options) == ApplyOptions(options, index, 0, Len(ns)).index

\* The index and the replica offset that the first k options of a call leave,
\* each option given the index its predecessor produced and the ring size.
RECURSIVE IndexAfter(_, _, _, _)
IndexAfter(options, k, index, size) ==
  IF k = 0
  THEN index
  ELSE ApplyOption(options[k], IndexAfter(options, k - 1, index, size), size).index

ReplicaAfter(options, k, index, size) ==
  IF k = 0
  THEN 0
  ELSE ApplyOption(options[k], IndexAfter(options, k - 1, index, size), size).replica

\* The missing/free section of a rendering that has no free part.
MissingOnlyText(missingList) ==
  IF missingList = <<>>
  THEN ""
  ELSE "(" \o Itoa(Len(missingList)) \o " missing " \o FormatInts(missingList) \o ")"

\* The slot list of a rendering in which each printed position below i shows
\* its own index or an underscore. A position is printed when it is occupied
\* or lies below the expected size or below the extent.
RECURSIVE PositionsText(_, _, _)
PositionsText(ns, expected, i) ==
  IF i = 0
  THEN ""
  ELSE PositionsText(ns, expected, i - 1)
       \o (IF Occupied(ns, i - 1) \/ i - 1 < expected \/ i - 1 < Extent(ns)
           THEN (IF i - 1 # 0 THEN " " ELSE "")
                \o (IF Occupied(ns, i - 1) THEN Itoa(i - 1) ELSE "_")
           ELSE "")

\* ------------------------------------------------------------------ claims

\* C1: Add(n) with n.id >= 0, followed immediately by GetNode(n.id) with no
\* options, returns exactly n, replica offset 0 and found = true.
C1_AddThenGetNode ==
  (last.op = "GetNode" /\ last.options = <<>> /\ last.added # Nil) =>
    /\ last.retNode = last.added
    /\ last.retReplica = 0
    /\ last.retFound

C1_Witness ==
  /\ last.op = "GetNode"
  /\ last.options = <<>>
  /\ last.added # Nil
  /\ last.index = 2
  /\ last.retFound

\* C2 as stated: GetNode reports not-found (no node, replica offset 0,
\* found = false) whenever the resolved slot is unoccupied (no node, or a node
\* with an empty address), and found = true only for an occupied slot.
C2_NotFoundIffUnoccupied ==
  last.op = "GetNode" =>
    LET i == ResolvedIndex(nodes, last.index, last.options)
    IN  /\ ~Occupied(nodes, i) =>
             (last.retNode = Nil /\ last.retReplica = 0 /\ ~last.retFound)
        /\ last.retFound => Occupied(nodes, i)

\* C2 as amended: GetNode reports not-found exactly when the resolved index is
\* out of range or the slot holds no node; a slot that holds a node is found
\* and returned whether or not the node has an address.
C2_NotFoundIffAbsent ==
  last.op = "GetNode" =>
    LET i == ResolvedIndex(nodes, last.index, last.options)
        present == i \in 0..(Len(nodes) - 1) /\ At(nodes, i) # Nil
    IN  /\ ~present => (last.retNode = Nil /\ last.retReplica = 0 /\ ~last.retFound)
        /\ present => (last.retFound /\ last.retNode = At(nodes, i))

C2_Witness ==
  /\ last.op = "GetNode"
  /\ last.options # <<>>
  /\ last.retFound
  /\ GetAddress(last.retNode) = ""

\* C3: for every integer outside [0, len(registry)), Remove returns none and
\* GetNode returns found = false, neither fails fatally and the registry and
\* the sizing state are unchanged.
C3_OutOfRangeIsNotFound ==
  [][(/\ last'.op \in {"Remove", "GetNode"}
      /\ last'.options = <<>>
      /\ (last'.index < 0 \/ last'.index >= Len(nodes)))
     => (/\ ~panicked'
         /\ last'.retNode = Nil
         /\ ~last'.retFound
         /\ ring' = ring)]_vars

\* C4: Remove(id) for an in-bounds id clears the slot and returns its previous
\* content (none for an empty slot); afterwards GetNode(id) is not found, the
\* registry has the same length and every other slot is unchanged.
C4_RemoveInBounds ==
  [][(last'.op = "Remove" /\ last'.index \in 0..(Len(nodes) - 1))
     => (/\ ~panicked'
         /\ last'.retNode = At(nodes, last'.index)
         /\ At(nodes', last'.index) = Nil
         /\ GetNode(nodes', last'.index, <<>>) = NotFound
         /\ Len(nodes') = Len(nodes)
         /\ \A i \in 0..(Len(nodes) - 1) :
              i # last'.index => At(nodes', i) = At(nodes, i)
         /\ UNCHANGED <<expectedSize, nextSize, replicationFactor>>)]_vars

C4_Witness ==
  /\ last.op = "Remove"
  /\ last.retNode # Nil
  /\ last.index < Len(nodes) - 1
  /\ At(nodes, last.index) = Nil
  /\ At(nodes, last.index + 1) # Nil

\* C5: CurrentSize() is the highest occupied slot index plus one, or 0 when no
\* slot is occupied: holes below the highest occupied slot do not reduce it
\* (occupied slots {0, 2} give 3) and unoccupied slots above it do not
\* increase it.
C5_CurrentSizeIsExtent ==
  /\ CurrentSize(nodes) = Extent(nodes)
  /\ last.op = "CurrentSize" => last.retSize = Extent(nodes)
  /\ OccupiedSlots(nodes) = {0, 2} => CurrentSize(nodes) = 3

C5_Witness ==
  /\ last.op = "CurrentSize"
  /\ OccupiedSlots(nodes) = {0, 2}
  /\ Len(nodes) > 3
  /\ At(nodes, 3) # Nil
  /\ last.retSize = 3

\* C6: MissingAndFreeNodeIds returns, in ascending order, missing = the
\* unoccupied slot indices below CurrentSize() and free = the occupied slot
\* indices at or above CurrentSize(); the lists are disjoint and the call
\* changes no ring state.
C6_MissingAndFree ==
  [][last'.op = "MissingAndFreeNodeIds"
     => (/\ IsAscendingListOf(last'.retMissing,
              {i \in 0..(Len(nodes) - 1) : i < CurrentSize(nodes) /\ ~Occupied(nodes, i)})
         /\ IsAscendingListOf(last'.retFree,
              {i \in 0..(Len(nodes) - 1) : i >= CurrentSize(nodes) /\ Occupied(nodes, i)})
         /\ \A j \in 1..Len(last'.retMissing), k \in 1..Len(last'.retFree) :
              last'.retMissing[j] # last'.retFree[k]
         /\ ring' = ring
         /\ panicked' = panicked)]_vars

C6_Witness ==
  /\ last.op = "MissingAndFreeNodeIds"
  /\ Len(last.retMissing) >= 2
  /\ CurrentSize(nodes) < Len(nodes)

\* C7 as stated: a ring whose occupied slots are exactly {0, 2, 4} has
\* CurrentSize() == 3, missing = [1] and free = [4].
C7_SizeThreeFreeFour ==
  OccupiedSlots(nodes) = {0, 2, 4} =>
    /\ CurrentSize(nodes) = 3
    /\ last.op = "MissingAndFreeNodeIds" =>
         (last.retMissing = <<1>> /\ last.retFree = <<4>>)

\* C7 as amended: a ring whose occupied slots are exactly {0, 2, 4} has
\* CurrentSize() == 5, missing = [1, 3] and an empty free list.
C7_SizeFiveNoneFree ==
  OccupiedSlots(nodes) = {0, 2, 4} =>
    /\ CurrentSize(nodes) = 5
    /\ last.op = "CurrentSize" => last.retSize = 5
    /\ last.op = "MissingAndFreeNodeIds" =>
         (last.retMissing = <<1, 3>> /\ last.retFree = <<>>)

C7_Witness ==
  /\ OccupiedSlots(nodes) = {0, 2, 4}
  /\ last.op = "MissingAndFreeNodeIds"
  /\ last.retMissing = <<1, 3>>

\* C8: SetExpectedSize(v) and SetReplicationFactor(v) with v <= 0 leave the
\* stored value unchanged, so a positive expectedSize or replicationFactor
\* stays positive through every ring operation.
C8_PositiveSizingStaysPositive ==
  [][/\ (last'.op = "SetExpectedSize" /\ last'.value <= 0)
          => expectedSize' = expectedSize
     /\ (last'.op = "SetReplicationFactor" /\ last'.value <= 0)
          => replicationFactor' = replicationFactor
     /\ expectedSize > 0 => expectedSize' > 0
     /\ replicationFactor > 0 => replicationFactor' > 0]_vars

C8_Witness ==
  /\ last.op = "SetExpectedSize"
  /\ last.value = 0
  /\ expectedSize = MaxSize
  /\ replicationFactor > 0

\* The ring of the rendering scenario: created with expected size 3, nodes
\* added at ids 0 and 2, id 1 absent, no resize in progress.
RenderingScenario ==
  /\ expectedSize = 3
  /\ nextSize = 0
  /\ Len(nodes) = 3
  /\ Occupied(nodes, 0)
  /\ At(nodes, 1) = Nil
  /\ Occupied(nodes, 2)

\* C9 as stated: the scenario ring renders as
\* `[0 _ 2] size 2->3 (1 missing [1])`.
C9_RendersSizeTwoToThree ==
  (RenderingScenario /\ last.op = "String") =>
    last.retString = "[0 _ 2] size 2->3 (1 missing [1])"

\* C9 as amended: the scenario ring renders as
\* `[0 _ 2] size 3 (1 missing [1])`.
C9_RendersSizeThree ==
  (RenderingScenario /\ last.op = "String") =>
    last.retString = "[0 _ 2] size 3 (1 missing [1])"

C9_Witness ==
  /\ RenderingScenario
  /\ last.op = "String"
  /\ last.retString = "[0 _ 2] size 3 (1 missing [1])"

\* The three forms of the size annotation.
SizeResizing(n, m) == " size " \o Itoa(n) \o "=>" \o Itoa(m) \o " "

SizeDiffers(n, m) == " size " \o Itoa(n) \o "->" \o Itoa(m) \o " "

SizeStable(n) == " size " \o Itoa(n) \o " "

\* C10 as stated: the annotation is `size N=>M` (M = nextSize) whenever
\* nextSize is non-zero, otherwise `size N->M` (M = expectedSize) whenever
\* CurrentSize() differs from expectedSize, otherwise `size N`; SetNextSize(0)
\* is accepted and returns the annotation to a non-resize form.
C10_AnnotationBySizes ==
  /\ last.op = "String" =>
       last.retString =
         StringSlots(nodes, expectedSize)
         \o (IF nextSize # 0
             THEN SizeResizing(CurrentSize(nodes), nextSize)
             ELSE IF CurrentSize(nodes) # expectedSize
                  THEN SizeDiffers(CurrentSize(nodes), expectedSize)
                  ELSE SizeStable(CurrentSize(nodes)))
         \o StringLists(nodes)
  /\ last.op = "SetNextSize" => nextSize = last.value
  /\ (last.op = "SetNextSize" /\ last.value = 0) =>
       StringSize(nodes, expectedSize, nextSize)
         \in {SizeDiffers(CurrentSize(nodes), expectedSize), SizeStable(CurrentSize(nodes))}

\* C10 as amended: as stated, except that `size N->M` is printed only when
\* CurrentSize() differs from expectedSize and expectedSize is non-zero; with
\* expectedSize zero and no resize the annotation is `size N`.
C10_AnnotationBySizesNonZero ==
  /\ last.op = "String" =>
       last.retString =
         StringSlots(nodes, expectedSize)
         \o (IF nextSize # 0
             THEN SizeResizing(CurrentSize(nodes), nextSize)
             ELSE IF CurrentSize(nodes) # expectedSize /\ expectedSize # 0
                  THEN SizeDiffers(CurrentSize(nodes), expectedSize)
                  ELSE SizeStable(CurrentSize(nodes)))
         \o StringLists(nodes)
  /\ last.op = "SetNextSize" => nextSize = last.value
  /\ (last.op = "SetNextSize" /\ last.value = 0) =>
       StringSize(nodes, expectedSize, nextSize)
         \in {SizeDiffers(CurrentSize(nodes), expectedSize), SizeStable(CurrentSize(nodes))}

C10_Witness ==
  /\ last.op = "String"
  /\ expectedSize = 0
  /\ nextSize = 0
  /\ CurrentSize(nodes) = 2
  /\ last.retString = "[_ 1] size 2 (1 missing [0])"

\* C11: for every count > 0 and every hash h, FindBucketGivenSize(h, count)
\* returns a bucket b with 0 <= b < count, and the same (h, count) always
\* yields the same b.
C11_BucketInRange ==
  /\ last.op = "FindBucketGivenSize" =>
       (/\ 0 <= last.retBucket
        /\ last.retBucket < last.value
        /\ last.retBucket = FindBucketGivenSize(last.keyHash, last.value))
  /\ \A h \in Hashes, count \in 1..MaxSize :
       FindBucketGivenSize(h, count) \in 0..(count - 1)

C11_Witness ==
  /\ last.op = "FindBucketGivenSize"
  /\ last.value = MaxSize
  /\ last.retBucket = MaxSize - 1

\* C12: FindBucket(h) equals FindBucketGivenSize(h, ExpectedSize()) in every
\* reachable state; for a fixed h it is unchanged by Add, Remove, SetNextSize
\* and SetReplicationFactor and changes only through an accepted
\* SetExpectedSize.
C12_FindBucketFollowsExpectedSize ==
  [][/\ last'.op = "FindBucket" =>
          last'.retBucket = FindBucketGivenSize(last'.keyHash, ExpectedSize)
     /\ (\/ last'.op \in {"Add", "Remove", "SetNextSize", "SetReplicationFactor"}
         \/ (last'.op = "SetExpectedSize" /\ last'.value <= 0))
          => \A h \in Hashes : FindBucket(h)' = FindBucket(h)
     /\ last'.op = "FindBucket"
          => \A h \in Hashes :
               h = last'.keyHash => FindBucket(h)' = FindBucket(h)]_vars

C12_Witness ==
  /\ last.op = "FindBucket"
  /\ Len(nodes) = 1
  /\ nextSize # 0
  /\ ExpectedSize = MaxSize
  /\ last.retBucket = MaxSize - 1

\* C13: a node holds at most one shard status per identifier: every stored
\* status sits under its own identifier and a listing never holds two
\* statuses of one identifier. SetShardStatus returns what was stored under the
\* identifier before the call (none if nothing was) and stores the new status
\* there; RemoveShardStatus deletes the identifier and changes nothing when it
\* is absent; neither touches another identifier. GetShardStatuses returns
\* exactly the stored statuses, each once.
C13_OneStatusPerIdentifier ==
  [][/\ \A key \in DOMAIN shards' : IdentifierOnThisServer(shards'[key]) = key
     /\ last'.op = "SetShardStatus" =>
          LET key == IdentifierOnThisServer(last'.status)
          IN  /\ last'.retStatus =
                   (IF key \in DOMAIN shards THEN shards[key] ELSE NoStatus)
              /\ DOMAIN shards' = DOMAIN shards \cup {key}
              /\ shards'[key] = last'.status
              /\ \A k \in DOMAIN shards \ {key} : shards'[k] = shards[k]
     /\ last'.op = "RemoveShardStatus" =>
          LET key == IdentifierOnThisServer(last'.status)
          IN  /\ DOMAIN shards' = DOMAIN shards \ {key}
              /\ \A k \in DOMAIN shards' : shards'[k] = shards[k]
              /\ key \notin DOMAIN shards => shards' = shards
     /\ last'.op = "GetShardStatuses" =>
          /\ shards' = shards
          /\ Len(last'.retStatuses) = Cardinality(DOMAIN shards)
          /\ {last'.retStatuses[k] : k \in DOMAIN last'.retStatuses}
               = {shards[k] : k \in DOMAIN shards}
          /\ \A i, j \in DOMAIN last'.retStatuses :
               IdentifierOnThisServer(last'.retStatuses[i])
                 = IdentifierOnThisServer(last'.retStatuses[j]) => i = j]_vars

\* A status replaced another of the same identifier while a second identifier
\* was stored, and the replaced one came back.
C13_Witness ==
  /\ last.op = "SetShardStatus"
  /\ last.retStatus # NoStatus
  /\ last.retStatus # last.status
  /\ Cardinality(DOMAIN shards) = MaxShard + 1

\* C14: an Add(n) that returns leaves the registry max(old length, n.id + 1)
\* slots long with n at slot n.id, whatever was there before; every other slot
\* that existed keeps its content and every slot the call created is absent.
\* An Add that fails leaves the registry as it was. No call of any kind
\* shortens the registry.
C14_AddGrowsAndPlaces ==
  [][/\ Len(nodes') >= Len(nodes)
     /\ (last'.op = "Add" /\ ~panicked') =>
          LET id == GetId(last'.node)
          IN  /\ Len(nodes') = IF Len(nodes) > id + 1 THEN Len(nodes) ELSE id + 1
              /\ At(nodes', id) = last'.node
              /\ \A i \in 0..(Len(nodes) - 1) : i # id => At(nodes', i) = At(nodes, i)
              /\ \A i \in Len(nodes)..(Len(nodes') - 1) : i # id => At(nodes', i) = Nil
     /\ (last'.op = "Add" /\ panicked') => nodes' = nodes]_vars

\* An Add beyond the end created an absent slot between an occupied slot it
\* kept and the slot it filled.
C14_Witness ==
  /\ last.op = "Add"
  /\ ~panicked
  /\ GetId(last.node) = MaxNodeId
  /\ Len(nodes) = MaxNodeId + 1
  /\ At(nodes, 0) # Nil
  /\ At(nodes, MaxNodeId - 1) = Nil

\* C15: GetNode runs its options from the first to the last, the first on the
\* index passed in and each later one on the index its predecessor produced,
\* all of them with len(registry) as the ring size. The slot looked up is the
\* index the last option produced; a node found there is returned with the
\* replica offset of the last option (0 without options), and when the slot is
\* out of range or holds nothing the replica offset returned is 0.
C15_OptionsLeftToRight ==
  last.op = "GetNode" =>
    LET n == Len(last.options)
        slot == IndexAfter(last.options, n, last.index, Len(nodes))
        replica == ReplicaAfter(last.options, n, last.index, Len(nodes))
    IN  IF slot >= 0 /\ slot < Len(nodes) /\ At(nodes, slot) # Nil
        THEN /\ last.retFound
             /\ last.retNode = At(nodes, slot)
             /\ last.retReplica = replica
        ELSE /\ ~last.retFound
             /\ last.retNode = Nil
             /\ last.retReplica = 0

\* Two options whose order matters: mirrored first and shifted second the call
\* finds the node at the last slot, shifted first it would have left the
\* registry.
C15_Witness ==
  /\ last.op = "GetNode"
  /\ last.options = <<[kind |-> "mirror", rank |-> 0], [kind |-> "rank", rank |-> 1]>>
  /\ last.index = 1
  /\ Len(nodes) = 2
  /\ last.retFound
  /\ GetId(last.retNode) = 1
  /\ last.retReplica = 1

\* C16: when every ring operation runs under the callers' lock, CurrentSize
\* never dereferences an absent slot and GetNode never returns found = true
\* without a node. (That both happen without the lock is the witness.)
C16_SerializedReadsAreSafe ==
  serialized =>
    /\ ~reader.fault
    /\ ~reader.foundNil
    /\ reader.retFound => reader.retNode # Nil

\* Without the lock: a GetNode has returned found = true with no node, and a
\* CurrentSize has dereferenced a slot that a Remove cleared after the nil test.
C16_Witness ==
  /\ ~serialized
  /\ reader.foundNil
  /\ reader.fault
  /\ reader.op = "CurrentSize"
  /\ last.op = "Remove"
  /\ last.index = reader.i - 1

\* C17: in a WithConnection call of either variant fn is invoked at most
\* once, and only with the server id resolved to a node that is not nil and
\* the dial succeeded. A call that has returned after the id was not found or
\* out of range, the node was nil or the dial failed returned an error of its
\* own and never invoked fn; a call that has returned after opening a
\* connection closed it, invoked fn once and returned what fn returned.
C17_FnOnceOverOpenConnection ==
  /\ conn.fnCalls <= 1
  /\ conn.fnCalls = 1 => (conn.resolved /\ conn.node # Nil /\ conn.dialed)
  /\ (conn.pc = "idle" /\ conn.variant # "none") =>
       /\ (~conn.resolved \/ conn.node = Nil \/ ~conn.dialed) =>
            /\ conn.ret \notin FnResults \cup {"none"}
            /\ conn.fnCalls = 0
       /\ conn.dialed =>
            /\ conn.closed
            /\ conn.fnCalls = 1
            /\ conn.ret = conn.fnResult

\* A call through the node list returned fn's own error over a connection it
\* opened and closed.
C17_Witness ==
  /\ conn.pc = "idle"
  /\ conn.variant = "PrimaryShards"
  /\ conn.dialed
  /\ conn.closed
  /\ conn.fnCalls = 1
  /\ conn.ret = "fn failed"

\* C18: while processDelete has not got past a successful storage delete
\* nothing has been appended, and every key in the change log has been deleted
\* from the store. Once it has returned: Ok is true exactly when the storage
\* delete succeeded; after a failed delete Status is the error's text and the
\* log is as it was before the call; after a successful one the log has gained
\* one delete entry for the request's key if a log manager is set and is as it
\* was if none is.
C18_LogsOnlySucceededDeletes ==
  /\ \A k \in DOMAIN store.log : store.log[k].Key \notin store.db
  /\ store.pc = "logDelete" => (store.err = "nil" /\ store.log = store.logBefore)
  /\ (store.pc = "idle" /\ store.err # "none") =>
       /\ store.resp.Ok <=> store.err = "nil"
       /\ store.err # "nil" =>
            /\ store.resp.Status = store.err
            /\ store.log = store.logBefore
       /\ (store.err = "nil" /\ ~store.lm) => store.log = store.logBefore
       /\ (store.err = "nil" /\ store.lm) =>
            /\ Len(store.log) = Len(store.logBefore) + 1
            /\ SubSeq(store.log, 1, Len(store.logBefore)) = store.logBefore
            /\ store.log[Len(store.log)].Key = store.request.Key
            /\ store.log[Len(store.log)].PartitionHash = store.request.PartitionHash
            /\ store.log[Len(store.log)].IsDelete

\* A delete failed after an earlier delete had been logged: the response
\* carries the error and the log still holds the one entry.
C18_Witness ==
  /\ store.pc = "idle"
  /\ store.lm
  /\ store.err = "io error"
  /\ ~store.resp.Ok
  /\ store.resp.Status = "io error"
  /\ Len(store.log) = 1
  /\ store.log[1].Key # store.request.Key

\* C19: in every state CurrentSize() <= len(registry) and no slot at or above
\* CurrentSize() is occupied; the free list of MissingAndFreeNodeIds is empty,
\* slot CurrentSize() - 1 is not in its missing list, and the text every
\* String() call returns ends with the size annotation and at most a missing
\* part, never a free part.
C19_NothingFree ==
  LET size == CurrentSize(nodes)
      lists == MissingAndFreeNodeIds(nodes)
  IN  /\ size <= Len(nodes)
      /\ \A i \in 0..(Len(nodes) - 1) : i >= size => ~Occupied(nodes, i)
      /\ lists.free = <<>>
      /\ \A k \in DOMAIN lists.missing : lists.missing[k] # size - 1
      /\ last.op = "MissingAndFreeNodeIds" => last.retFree = <<>>
      /\ last.op = "String" =>
           last.retString = StringSlots(nodes, expectedSize)
                              \o StringSize(nodes, expectedSize, nextSize)
                              \o MissingOnlyText(lists.missing)

\* A rendering of a registry that holds an addressless node above the current
\* size and lacks a member below it.
C19_Witness ==
  /\ last.op = "String"
  /\ Len(nodes) = 3
  /\ CurrentSize(nodes) = 2
  /\ At(nodes, 2) # Nil
  /\ MissingAndFreeNodeIds(nodes).missing = <<0>>

\* C20: every slot of the registry that holds a node holds one whose GetId()
\* is the slot's index; GetNode(i) without options returns no node of another
\* id, and every String() call shows at each position it prints the position's
\* own index or an underscore.
C20_SlotHoldsItsOwnId ==
  /\ \A i \in 0..(Len(nodes) - 1) : At(nodes, i) # Nil => GetId(At(nodes, i)) = i
  /\ \A i \in IndicesUpTo(MaxNodeId) :
       GetNode(nodes, i, <<>>).found => GetId(GetNode(nodes, i, <<>>).node) = i
  /\ last.op = "GetNode" /\ last.options = <<>> /\ last.retFound
       => GetId(last.retNode) = last.index
  /\ last.op = "String" =>
       last.retString
         = "[" \o PositionsText(nodes, expectedSize,
                                IF Len(nodes) < expectedSize THEN expectedSize
                                ELSE Len(nodes))
               \o "]" \o StringSize(nodes, expectedSize, nextSize) \o StringLists(nodes)

\* After a Remove below it and a replacement at it, the highest slot is looked
\* up and returns the node of that id.
C20_Witness ==
  /\ last.op = "GetNode"
  /\ last.index = MaxNodeId
  /\ last.retFound
  /\ GetId(last.retNode) = MaxNodeId
  /\ Len(nodes) = MaxNodeId + 1
  /\ At(nodes, 0) = Nil
  /\ At(nodes, 1) # Nil

====
